---- MODULE Spec2Model ----
(***************************************************************************)
(* Needleman-Wunsch global alignment (src/src/needleman_wunsch.py) and its *)
(* scoring scheme (src/src/scoring_scheme.py).                             *)
(*                                                                         *)
(* Python strings are modelled as sequences of one-character strings, the  *)
(* gap marker is "-".  Scores are the float values of the source; every    *)
(* value drawn here is an integer, for which float arithmetic is exact.    *)
(* A raised exception is a record with err # "none".                       *)
(***************************************************************************)
EXTENDS Integers, Sequences, FiniteSets, TLC

VARIABLES sequence1, sequence2, scoring_scheme, args, pc, A, partials,
          alignments, max_score, rounds, exception, result

vars == <<sequence1, sequence2, scoring_scheme, args, pc, A, partials,
          alignments, max_score, rounds, exception, result>>

\* ------------------------------------------------------------------ bounds

MaxLen == 2

MaxAlnLen == 3

MaxLines == 3

\* ------------------------------------------------------------------ values

GAP == "-"

Ok(v) == [err |-> "none", val |-> v]

Raise(e) == [err |-> e, val |-> 0]

Min(a, b) == IF a < b THEN a ELSE b

\* max() that never looks at its third argument.
Max3_DropsThird(a, b, c) == IF a >= b THEN a ELSE b

Max3(a, b, c) == LET ab == IF a >= b THEN a ELSE b IN IF ab >= c THEN ab ELSE c

Abs(x) == IF x < 0 THEN -x ELSE x

Range(s) == {s[k] : k \in 1..Len(s)}

Repeat(sym, n) == [k \in 1..n |-> sym]

SeqsUpTo(S, n) == UNION {[1..k -> S] : k \in 0..n}

\* ------------------------------------------------------------------ ScoringScheme

\* ScoringScheme.__init__: the four keyword arguments become fields, no matrix
\* is loaded, and no gap_extend_penalty attribute is created.
ScoringScheme(match_score, mismatch_penalty, gap_penalty, gap_start_penalty) ==
    [match_score |-> match_score,
     mismatch_penalty |-> mismatch_penalty,
     gap_penalty |-> gap_penalty,
     gap_start_penalty |-> gap_start_penalty,
     has_gap_extend_penalty |-> FALSE,
     gap_extend_penalty |-> 0,
     has_scoring_matrix |-> FALSE,
     symbol_to_index |-> <<>>,
     n_symbols |-> 0,
     scoring_matrix |-> <<>>]

\* The surcharge of the gap at 1-based position i of side seq (Python index
\* i - 1): "gap_start_penalty if (i > 0) and seq[i - 1] != '-' else 0.0".
gap_start_charge(scheme, seq, i) ==
    IF i > 1 /\ seq[i - 1] # GAP THEN scheme.gap_start_penalty ELSE 0

\* The matrix / match-mismatch branch of score for two symbols, none a gap.
symbol_score(scheme, symbol1, symbol2) ==
    IF scheme.has_scoring_matrix
    THEN IF symbol1 \notin DOMAIN scheme.symbol_to_index
            \/ symbol2 \notin DOMAIN scheme.symbol_to_index
         THEN Raise("AssertionError")
         ELSE Ok(scheme.scoring_matrix[<<scheme.symbol_to_index[symbol1],
                                         scheme.symbol_to_index[symbol2]>>])
    ELSE Ok(IF symbol1 = symbol2 THEN scheme.match_score
                                 ELSE scheme.mismatch_penalty)

RECURSIVE score_loop(_, _, _, _, _)
score_loop(scheme, s1, s2, i, acc) ==
    IF i > Min(Len(s1), Len(s2)) THEN Ok(acc)
    ELSE IF s1[i] = GAP /\ s2[i] = GAP THEN Raise("ValueError")
    ELSE IF s1[i] = GAP
         THEN score_loop(scheme, s1, s2, i + 1,
                         acc + scheme.gap_penalty + gap_start_charge(scheme, s1, i))
    ELSE IF s2[i] = GAP
         THEN score_loop(scheme, s1, s2, i + 1,
                         acc + scheme.gap_penalty + gap_start_charge(scheme, s2, i))
    ELSE LET r == symbol_score(scheme, s1[i], s2[i]) IN
         IF r.err # "none" THEN r
         ELSE score_loop(scheme, s1, s2, i + 1, acc + r.val)

\* ScoringScheme.score (and __call__, which forwards to it).
score(scheme, s1, s2) == score_loop(scheme, s1, s2, 1, 0)

\* ------------------------------------------------------------------ load_matrix

\* A matrix file is a sequence of lines, a line the sequence of its
\* whitespace-separated tokens (line.split()); a line whose first token is "#"
\* is a line whose first character is "#".
IsComment(line) == Len(line) > 0 /\ line[1] = "#"

\* float(token): the numeric tokens and their values; any other token makes
\* float() raise ValueError.
NumericTokens == {"-1", "0", "1", "2"}

Float(token) ==
    IF token = "-1" THEN -1
    ELSE IF token = "0" THEN 0
    ELSE IF token = "1" THEN 1
    ELSE 2

\* "headline = f.readline(); while headline[0] == '#': headline = f.readline()":
\* the 1-based number of the first line that is no comment, Len(file) + 1 when
\* readline() runs off the end of the file (it then returns "").
RECURSIVE HeadlineAt(_, _)
HeadlineAt(file, k) ==
    IF k > Len(file) THEN k
    ELSE IF IsComment(file[k]) THEN HeadlineAt(file, k + 1)
    ELSE k

\* {symbol.strip(): i for i, symbol in enumerate(headline.split())}: a later
\* occurrence of a symbol overwrites the index of an earlier one.
SymbolToIndex(headline) ==
    [symbol \in Range(headline) |->
        CHOOSE i \in 0..(Len(headline) - 1) :
            /\ headline[i + 1] = symbol
            /\ \A k \in 0..(Len(headline) - 1) : headline[k + 1] = symbol => k <= i]

\* "for j, score in enumerate(row): self.scoring_matrix[i, j] = float(score)"
\* for one data row, from 0-based column j on: float() is evaluated before the
\* store, the store raises IndexError outside the n x n table.
RECURSIVE FillRow(_, _, _, _, _)
FillRow(matrix, n, i, row, j) ==
    IF j >= Len(row) THEN [err |-> "none", matrix |-> matrix]
    ELSE IF row[j + 1] \notin NumericTokens THEN [err |-> "ValueError", matrix |-> matrix]
    ELSE IF i >= n \/ j >= n THEN [err |-> "IndexError", matrix |-> matrix]
    ELSE FillRow([matrix EXCEPT ![<<i, j>>] = Float(row[j + 1])], n, i, row, j + 1)

\* "for line in f": the data lines from line k on.
RECURSIVE FillMatrix(_, _, _)
FillMatrix(scheme, file, k) ==
    IF k > Len(file) THEN [err |-> "none", scheme |-> scheme]
    ELSE LET line == file[k] IN
         IF Len(line) = 0 THEN [err |-> "IndexError", scheme |-> scheme]
         ELSE IF line[1] \notin DOMAIN scheme.symbol_to_index
              THEN [err |-> "KeyError", scheme |-> scheme]
         ELSE LET filled == FillRow(scheme.scoring_matrix, scheme.n_symbols,
                                    scheme.symbol_to_index[line[1]], Tail(line), 0)
                  next == [scheme EXCEPT !.scoring_matrix = filled.matrix]
              IN IF filled.err # "none" THEN [err |-> filled.err, scheme |-> next]
                 ELSE FillMatrix(next, file, k + 1)

\* ScoringScheme.load_matrix: the exception raised ("none" when it returns) and
\* the scheme as the call leaves it, which is partly loaded when it raises
\* after the header line.
load_matrix(scheme, file) ==
    LET h == HeadlineAt(file, 1) IN
    IF h > Len(file) THEN [err |-> "IndexError", scheme |-> scheme]
    ELSE LET index == SymbolToIndex(file[h])
             n == Cardinality(DOMAIN index)
             zeros == [p \in (0..(n - 1)) \X (0..(n - 1)) |-> 0]
             fresh == [scheme EXCEPT !.symbol_to_index = index,
                                     !.n_symbols = n,
                                     !.has_scoring_matrix = TRUE,
                                     !.scoring_matrix = zeros]
         IN FillMatrix(fresh, file, h + 1)

\* ------------------------------------------------------------------ needleman_wunsch

\* "A = np.empty(...); A[0, :] = gap_penalty * arange; A[:, 0] = gap_penalty * arange":
\* the interior cells are uninitialised here (0 stands for them) and each is
\* written by the population loop before anything reads it.
BorderMatrix(max_i, max_j, gap_penalty) ==
    [p \in (0..(max_i - 1)) \X (0..(max_j - 1)) |->
        IF p[1] = 0 THEN gap_penalty * p[2]
        ELSE IF p[2] = 0 THEN gap_penalty * p[1]
        ELSE 0]

\* The three terms whose max is A[i, j]; the first raises what the scoring
\* scheme raises on the two symbols.
DiagonalTerm(scheme, s1, s2, M, i, j) ==
    LET r == score(scheme, <<s1[i]>>, <<s2[j]>>) IN
    IF r.err # "none" THEN r ELSE Ok(M[<<i - 1, j - 1>>] + r.val)

UpTerm(M, gap_penalty, i, j) == M[<<i - 1, j>>] + gap_penalty

LeftTerm(M, gap_penalty, i, j) == M[<<i, j - 1>>] + gap_penalty

\* "A[i, j] = max(...)" for one cell.
Cell(scheme, s1, s2, M, gap_penalty, i, j) ==
    LET d == DiagonalTerm(scheme, s1, s2, M, i, j) IN
    IF d.err # "none" THEN d
    ELSE Ok(Max3(d.val, UpTerm(M, gap_penalty, i, j), LeftTerm(M, gap_penalty, i, j)))

\* "for i in range(1, max_i): for j in range(1, max_j)": the cells in row-major
\* order from (i, j) on.
RECURSIVE Populate(_, _, _, _, _, _, _)
Populate(scheme, s1, s2, M, gap_penalty, i, j) ==
    IF i > Len(s1) \/ Len(s2) = 0 THEN [err |-> "none", matrix |-> M]
    ELSE LET c == Cell(scheme, s1, s2, M, gap_penalty, i, j) IN
         IF c.err # "none" THEN [err |-> c.err, matrix |-> M]
         ELSE LET filled == [M EXCEPT ![<<i, j>>] = c.val] IN
              IF j < Len(s2)
              THEN Populate(scheme, s1, s2, filled, gap_penalty, i, j + 1)
              ELSE Populate(scheme, s1, s2, filled, gap_penalty, i + 1, 1)

\* Lines 17-33: the matrix of one call, or the exception that ends the call
\* (AttributeError when the scheme has no gap_extend_penalty attribute).
BuildMatrix(scheme, s1, s2) ==
    IF ~scheme.has_gap_extend_penalty THEN [err |-> "AttributeError", matrix |-> <<>>]
    ELSE Populate(scheme, s1, s2,
                  BorderMatrix(Len(s1) + 1, Len(s2) + 1, scheme.gap_extend_penalty),
                  scheme.gap_extend_penalty, 1, 1)

\* The alignment a partial at row 0 appends (line 42).
FinishRow0(p) == <<p.alignment1, Repeat(GAP, p.j) \o p.alignment2>>

\* The alignment a partial at column 0 appends (line 44).
FinishCol0(p) == <<Repeat(GAP, p.i) \o p.alignment1, p.alignment2>>

\* The partials lines 46-51 push for one interior partial, in the order pushed.
DiagonalMove(s1, s2, p) ==
    [alignment1 |-> <<s1[p.i]>> \o p.alignment1,
     alignment2 |-> <<s2[p.j]>> \o p.alignment2, i |-> p.i - 1, j |-> p.j - 1]

\* The move up that forgets to leave the row.
UpMove_Stuck(s1, s2, p) ==
    [alignment1 |-> <<s1[p.i]>> \o p.alignment1,
     alignment2 |-> <<GAP>> \o p.alignment2, i |-> p.i, j |-> p.j]

UpMove(s1, s2, p) ==
    [alignment1 |-> <<s1[p.i]>> \o p.alignment1,
     alignment2 |-> <<GAP>> \o p.alignment2, i |-> p.i - 1, j |-> p.j]

LeftMove(s1, s2, p) ==
    [alignment1 |-> <<GAP>> \o p.alignment1,
     alignment2 |-> <<s2[p.j]>> \o p.alignment2, i |-> p.i, j |-> p.j - 1]

\* The three tests chained with elif: only the first matching term is followed.
Pushed_FirstMatchOnly(scheme, s1, s2, M, p) ==
    LET g == scheme.gap_extend_penalty
        d == DiagonalTerm(scheme, s1, s2, M, p.i, p.j)
    IN IF d.err = "none" /\ M[<<p.i, p.j>>] = d.val THEN <<DiagonalMove(s1, s2, p)>>
       ELSE IF M[<<p.i, p.j>>] = UpTerm(M, g, p.i, p.j) THEN <<UpMove(s1, s2, p)>>
       ELSE IF M[<<p.i, p.j>>] = LeftTerm(M, g, p.i, p.j) THEN <<LeftMove(s1, s2, p)>>
       ELSE <<>>

Pushed(scheme, s1, s2, M, p) ==
    LET g == scheme.gap_extend_penalty
        d == DiagonalTerm(scheme, s1, s2, M, p.i, p.j)
    IN (IF d.err = "none" /\ M[<<p.i, p.j>>] = d.val
        THEN <<DiagonalMove(s1, s2, p)>> ELSE <<>>)
       \o (IF M[<<p.i, p.j>>] = UpTerm(M, g, p.i, p.j)
           THEN <<UpMove(s1, s2, p)>> ELSE <<>>)
       \o (IF M[<<p.i, p.j>>] = LeftTerm(M, g, p.i, p.j)
           THEN <<LeftMove(s1, s2, p)>> ELSE <<>>)

\* The body of "for alignment1, alignment2, i, j in partials" for one partial:
\* what it appends to alignments and to next_partials.
Visit(scheme, s1, s2, M, p) ==
    IF p.i = 0 THEN [appended |-> <<FinishRow0(p)>>, pushed |-> <<>>]
    ELSE IF p.j = 0 THEN [appended |-> <<FinishCol0(p)>>, pushed |-> <<>>]
    ELSE [appended |-> <<>>, pushed |-> Pushed(scheme, s1, s2, M, p)]

\* One pass of the while loop over the partials from position k on.
RECURSIVE Round(_, _, _, _, _, _)
Round(scheme, s1, s2, M, ps, k) ==
    IF k > Len(ps) THEN [appended |-> <<>>, pushed |-> <<>>]
    ELSE LET v == Visit(scheme, s1, s2, M, ps[k])
             rest == Round(scheme, s1, s2, M, ps, k + 1)
         IN [appended |-> v.appended \o rest.appended,
             pushed |-> v.pushed \o rest.pushed]

\* ------------------------------------------------------------------ inputs

Alphabet == {"A", "C"}

Textbook1 == <<"G", "A", "T", "T", "A", "C", "A">>

Textbook2 == <<"G", "C", "A", "T", "G", "C", "U">>

\* The matrix file of the 2-symbol example: header "A C", rows "A 2 -1", "C -1 2".
ExampleFile == << <<"A", "C">>, <<"A", "2", "-1">>, <<"C", "-1", "2">> >>

\* The same file with a row for a symbol the header does not list.
UnknownRowFile == << <<"A", "C">>, <<"G", "1", "1">> >>

SequencePairs ==
    (SeqsUpTo(Alphabet, MaxLen) \X SeqsUpTo(Alphabet, MaxLen))
        \cup {<<Textbook1, Textbook2>>}

\* Keyword arguments given to ScoringScheme(): the defaults of line 5 first.
CtorArgs == {<<1, -1, -1, 0>>, <<1, -1, -2, 0>>, <<1, -1, -1, -1>>}

\* The optional command-line arguments of main; <<>> is None.
ArgSets ==
    [gap_penalty : {<<>>, <<1>>, <<2>>},
     match_score : {<<>>, <<2>>},
     mismatch_penalty : {<<>>, <<2>>},
     matrix_file : {<<>>, <<ExampleFile>>, <<UnknownRowFile>>}]

NoArgs == [gap_penalty |-> <<>>, match_score |-> <<>>,
           mismatch_penalty |-> <<>>, matrix_file |-> <<>>]

Idle ==
    /\ A = <<>>
    /\ partials = <<>>
    /\ alignments = <<>>
    /\ max_score = 0
    /\ rounds = 0
    /\ exception = "none"
    /\ result = Ok(0)

\* ------------------------------------------------------------------ main and needleman_wunsch

\* The state after "scoring_scheme = ScoringScheme()" (main, line 74) or after a
\* library caller constructed the scheme with keyword arguments.
Init ==
    /\ \E pair \in SequencePairs : sequence1 = pair[1] /\ sequence2 = pair[2]
    /\ \E c \in CtorArgs : scoring_scheme = ScoringScheme(c[1], c[2], c[3], c[4])
    /\ args \in ArgSets
    /\ pc = "main"
    /\ Idle

\* main, lines 75-80: the three field overrides.
Overrides(scheme, a) ==
    LET s1 == IF a.gap_penalty # <<>>
              THEN [scheme EXCEPT !.has_gap_extend_penalty = TRUE,
                                  !.gap_extend_penalty = -Abs(a.gap_penalty[1])]
              ELSE scheme
        s2 == IF a.match_score # <<>>
              THEN [s1 EXCEPT !.match_score = a.match_score[1]] ELSE s1
    IN IF a.mismatch_penalty # <<>>
       THEN [s2 EXCEPT !.mismatch_penalty = -Abs(a.mismatch_penalty[1])] ELSE s2

\* main, lines 75-82: the overrides, then load_matrix when a file is named.
Configure ==
    /\ pc = "main"
    /\ LET overridden == Overrides(scoring_scheme, args)
           loaded == IF args.matrix_file # <<>>
                     THEN load_matrix(overridden, args.matrix_file[1])
                     ELSE [err |-> "none", scheme |-> overridden]
       IN /\ scoring_scheme' = loaded.scheme
          /\ exception' = loaded.err
          /\ pc' = IF loaded.err = "none" THEN "call" ELSE "raised"
    /\ UNCHANGED <<sequence1, sequence2, args, A, partials, alignments,
                   max_score, rounds, result>>

\* needleman_wunsch, lines 17-37: the matrix, the score and the seed partial.
Call ==
    /\ pc = "call"
    /\ LET built == BuildMatrix(scoring_scheme, sequence1, sequence2) IN
       IF built.err # "none"
       THEN /\ pc' = "raised"
            /\ exception' = built.err
            /\ UNCHANGED <<A, max_score, partials>>
       ELSE /\ pc' = "backtrace"
            /\ A' = built.matrix
            /\ max_score' = built.matrix[<<Len(sequence1), Len(sequence2)>>]
            /\ partials' = <<[alignment1 |-> <<>>, alignment2 |-> <<>>,
                              i |-> Len(sequence1), j |-> Len(sequence2)]>>
            /\ UNCHANGED exception
    /\ UNCHANGED <<sequence1, sequence2, scoring_scheme, args, alignments,
                   rounds, result>>

\* One pass of "while len(partials) > 0" (lines 38-52); rounds counts the passes.
BacktraceRound ==
    /\ pc = "backtrace"
    /\ Len(partials) > 0
    /\ LET r == Round(scoring_scheme, sequence1, sequence2, A, partials, 1) IN
       /\ alignments' = alignments \o r.appended
       /\ partials' = r.pushed
    /\ rounds' = rounds + 1
    /\ UNCHANGED <<sequence1, sequence2, scoring_scheme, args, pc, A,
                   max_score, exception, result>>

\* "return max_score, alignments" (line 54).
Return ==
    /\ pc = "backtrace"
    /\ Len(partials) = 0
    /\ pc' = "returned"
    /\ UNCHANGED <<sequence1, sequence2, scoring_scheme, args, A, partials,
                   alignments, max_score, rounds, exception, result>>

Next == Configure \/ Call \/ BacktraceRound \/ Return

Spec == Init /\ [][Next]_vars

\* ------------------------------------------------------------------ score, called on its own

AlignedAlphabet == {"A", "G", GAP}

\* The default scheme, a scheme with a gap start penalty, and each of them with
\* the example matrix loaded.
ScoredSchemes ==
    LET plain == {ScoringScheme(1, -1, -1, 0), ScoringScheme(1, -1, -2, -1)} IN
    plain \cup {load_matrix(scheme, ExampleFile).scheme : scheme \in plain}

InitScore ==
    /\ sequence1 \in SeqsUpTo(AlignedAlphabet, MaxAlnLen)
    /\ sequence2 \in SeqsUpTo(AlignedAlphabet, MaxAlnLen)
    /\ scoring_scheme \in ScoredSchemes
    /\ args = NoArgs
    /\ pc = "score"
    /\ Idle

\* A call scoring_scheme.score(sequence1, sequence2) of a finished alignment.
ScoreCall ==
    /\ pc = "score"
    /\ result' = score(scoring_scheme, sequence1, sequence2)
    /\ pc' = "scored"
    /\ UNCHANGED <<sequence1, sequence2, scoring_scheme, args, A, partials,
                   alignments, max_score, rounds, exception>>

SpecScore == InitScore /\ [][ScoreCall]_vars

\* ------------------------------------------------------------------ load_matrix, called on its own

FileLines ==
    {<<"#">>, <<>>, <<"A", "C">>,
     <<"A", "2", "-1">>, <<"C", "-1", "2">>,
     <<"A", "2">>, <<"A", "2", "-1", "0">>,
     <<"A", "x", "-1">>, <<"G", "1", "1">>}

InitLoad ==
    /\ sequence1 = <<>>
    /\ sequence2 = <<>>
    /\ scoring_scheme = ScoringScheme(1, -1, -1, 0)
    /\ \E file \in SeqsUpTo(FileLines, MaxLines) :
           args = [NoArgs EXCEPT !.matrix_file = <<file>>]
    /\ pc = "load"
    /\ Idle

\* A call scoring_scheme.load_matrix(filename) on a fresh scheme.
LoadCall ==
    /\ pc = "load"
    /\ LET loaded == load_matrix(scoring_scheme, args.matrix_file[1]) IN
       /\ scoring_scheme' = loaded.scheme
       /\ exception' = loaded.err
       /\ pc' = IF loaded.err = "none" THEN "loaded" ELSE "raised"
    /\ UNCHANGED <<sequence1, sequence2, args, A, partials, alignments,
                   max_score, rounds, result>>

SpecLoad == InitLoad /\ [][LoadCall]_vars

\* ------------------------------------------------------------------ notions the claims use

Returned == pc = "returned"

Strip(a) == SelectSeq(a, LAMBDA x : x # GAP)

\* Every valid global alignment of s1 and s2: pairs of equal-length gapped
\* sequences without a column of two gaps that strip to s1 and s2.
RECURSIVE GlobalAlignments(_, _)
GlobalAlignments(s1, s2) ==
    LET m == Len(s1)
        n == Len(s2)
        f1 == SubSeq(s1, 1, m - 1)
        f2 == SubSeq(s2, 1, n - 1)
    IN IF m = 0 /\ n = 0 THEN {<< <<>>, <<>> >>}
       ELSE (IF m > 0 /\ n > 0
             THEN {<<Append(a[1], s1[m]), Append(a[2], s2[n])>> : a \in GlobalAlignments(f1, f2)}
             ELSE {})
            \cup (IF m > 0
                  THEN {<<Append(a[1], s1[m]), Append(a[2], GAP)>> : a \in GlobalAlignments(f1, s2)}
                  ELSE {})
            \cup (IF n > 0
                  THEN {<<Append(a[1], GAP), Append(a[2], s2[n])>> : a \in GlobalAlignments(s1, f2)}
                  ELSE {})

\* The uniform-gap score of an alignment: pairScore per symbol column, g per
\* gap column.
RECURSIVE UniformScore(_, _, _, _)
UniformScore(scheme, g, a1, a2) ==
    IF Len(a1) = 0 THEN 0
    ELSE (IF Head(a1) = GAP \/ Head(a2) = GAP THEN g
          ELSE symbol_score(scheme, Head(a1), Head(a2)).val)
         + UniformScore(scheme, g, Tail(a1), Tail(a2))

BoundedInput == Len(sequence1) <= MaxLen /\ Len(sequence2) <= MaxLen

TextbookCase == sequence1 = Textbook1 /\ sequence2 = Textbook2

\* match = 1, mismatch = -1, per-gap cost -1 in both gap fields, no matrix.
TextbookPolicy ==
    /\ scoring_scheme.match_score = 1
    /\ scoring_scheme.mismatch_penalty = -1
    /\ scoring_scheme.gap_penalty = -1
    /\ scoring_scheme.has_gap_extend_penalty
    /\ scoring_scheme.gap_extend_penalty = -1
    /\ ~scoring_scheme.has_scoring_matrix

NoGaps(a) == \A k \in 1..Len(a) : a[k] # GAP

\* ------------------------------------------------------------------ C1

\* C1: every returned alignment, re-scored by the scheme's score, gives the
\* score the same call returned.
C1_RescoreReproducesScore ==
    Returned =>
        \A k \in 1..Len(alignments) :
            score(scoring_scheme, alignments[k][1], alignments[k][2]) = Ok(max_score)

\* ------------------------------------------------------------------ C2

\* C2: every returned alignment has two sides of equal length that strip to
\* sequence1 and sequence2.
C2_AlignmentsAreValid ==
    Returned =>
        \A k \in 1..Len(alignments) :
            /\ Len(alignments[k][1]) = Len(alignments[k][2])
            /\ Strip(alignments[k][1]) = sequence1
            /\ Strip(alignments[k][2]) = sequence2

\* ------------------------------------------------------------------ C3

\* C3: a partial at row 0 with j columns left is completed as (j gaps before
\* its first side, sequence2[0..j) before its second side), symmetrically at
\* column 0; so an empty sequence1 gives the score gap cost * n and the single
\* alignment (n gaps, sequence2).
C3_BorderCompletion ==
    /\ pc = "backtrace" =>
          \A k \in 1..Len(partials) :
              LET p == partials[k]
                  v == Visit(scoring_scheme, sequence1, sequence2, A, p)
              IN /\ p.i = 0 =>
                       v.appended = << <<Repeat(GAP, p.j) \o p.alignment1,
                                         SubSeq(sequence2, 1, p.j) \o p.alignment2>> >>
                 /\ (p.i # 0 /\ p.j = 0) =>
                       v.appended = << <<SubSeq(sequence1, 1, p.i) \o p.alignment1,
                                         Repeat(GAP, p.i) \o p.alignment2>> >>
    /\ (Returned /\ sequence1 = <<>>) =>
          /\ max_score = scoring_scheme.gap_extend_penalty * Len(sequence2)
          /\ alignments = << <<Repeat(GAP, Len(sequence2)), sequence2>> >>

\* ------------------------------------------------------------------ C4

\* C4: the returned score is A[m][n] of the matrix with the gap-cost border and
\* the three-term recurrence, g the per-gap cost the engine reads from the
\* scheme, and (for inputs within MaxLen) it is the maximum uniform-gap score
\* over all valid global alignments of the two sequences.
C4_ScoreIsOptimum ==
    pc \in {"backtrace", "returned"} =>
        LET g == scoring_scheme.gap_extend_penalty
            m == Len(sequence1)
            n == Len(sequence2)
        IN /\ \A j \in 0..n : A[<<0, j>>] = g * j
           /\ \A i \in 0..m : A[<<i, 0>>] = g * i
           /\ \A i \in 1..m : \A j \in 1..n :
                  A[<<i, j>>] = Max3(A[<<i - 1, j - 1>>]
                                       + symbol_score(scoring_scheme, sequence1[i], sequence2[j]).val,
                                     A[<<i - 1, j>>] + g,
                                     A[<<i, j - 1>>] + g)
           /\ max_score = A[<<m, n>>]
           /\ BoundedInput =>
                  LET all == GlobalAlignments(sequence1, sequence2) IN
                  /\ \A a \in all : UniformScore(scoring_scheme, g, a[1], a[2]) <= max_score
                  /\ \E a \in all : UniformScore(scoring_scheme, g, a[1], a[2]) = max_score

\* A call that returned a score only an alignment with a gap column reaches.
C4_Witness ==
    /\ Returned
    /\ sequence1 = <<"A", "C">>
    /\ sequence2 = <<"C">>
    /\ scoring_scheme.gap_extend_penalty = -1
    /\ max_score = 0

\* ------------------------------------------------------------------ C5

\* C5: every valid global alignment whose uniform-gap score is the returned
\* score is in the returned list.
C5_EveryCoOptimalReturned ==
    (Returned /\ BoundedInput) =>
        \A a \in GlobalAlignments(sequence1, sequence2) :
            UniformScore(scoring_scheme, scoring_scheme.gap_extend_penalty, a[1], a[2]) = max_score
                => \E k \in 1..Len(alignments) : alignments[k] = a

\* ------------------------------------------------------------------ C6

\* C6: a call never fails for want of a gap cost, and the per-gap cost of the
\* matrix border is the gap_penalty field that score charges per gap.
C6_EngineUsesGapPenalty ==
    /\ pc = "raised" => exception # "AttributeError"
    /\ pc \in {"backtrace", "returned"} =>
          \A j \in 0..Len(sequence2) : A[<<0, j>>] = scoring_scheme.gap_penalty * j

\* ------------------------------------------------------------------ C7

\* C7 as stated: GATTACA against GCATGCU under match 1, mismatch -1, gap -1
\* returns score 0 and some alignment of length 7 without gaps.
C7_TextbookLengthSeven ==
    (Returned /\ TextbookCase /\ TextbookPolicy) =>
        /\ max_score = 0
        /\ \E k \in 1..Len(alignments) :
               /\ Len(alignments[k][1]) = 7
               /\ Len(alignments[k][2]) = 7
               /\ NoGaps(alignments[k][1])
               /\ NoGaps(alignments[k][2])

\* C7 amended: the call returns score 0 and exactly the three alignments of
\* length 8 with one gap on each side.
C7_TextbookThreeAlignments ==
    (Returned /\ TextbookCase /\ TextbookPolicy) =>
        /\ max_score = 0
        /\ alignments =
             << << <<"G", "-", "A", "T", "T", "A", "C", "A">>,
                   <<"G", "C", "A", "-", "T", "G", "C", "U">> >>,
                << <<"G", "-", "A", "T", "T", "A", "C", "A">>,
                   <<"G", "C", "A", "T", "-", "G", "C", "U">> >>,
                << <<"G", "-", "A", "T", "T", "A", "C", "A">>,
                   <<"G", "C", "A", "T", "G", "-", "C", "U">> >> >>

C7_Witness == Returned /\ TextbookCase /\ TextbookPolicy /\ Len(alignments) = 3

\* ------------------------------------------------------------------ C8

\* The symbol columns' pairScore sum, the gap positions and the gap runs of an
\* alignment without a column of two gaps.
RECURSIVE PairSum(_, _, _)
PairSum(scheme, a1, a2) ==
    IF Len(a1) = 0 THEN 0
    ELSE (IF Head(a1) = GAP \/ Head(a2) = GAP THEN 0
          ELSE symbol_score(scheme, Head(a1), Head(a2)).val)
         + PairSum(scheme, Tail(a1), Tail(a2))

GapPositions(a) == Cardinality({k \in 1..Len(a) : a[k] = GAP})

GapRuns(a) == Cardinality({k \in 1..Len(a) : a[k] = GAP /\ (k = 1 \/ a[k - 1] # GAP)})

Scorable(scheme, a1, a2) ==
    /\ Len(a1) = Len(a2)
    /\ \A k \in 1..Len(a1) :
           /\ ~(a1[k] = GAP /\ a2[k] = GAP)
           /\ (scheme.has_scoring_matrix /\ a1[k] # GAP /\ a2[k] # GAP) =>
                  /\ a1[k] \in DOMAIN scheme.symbol_to_index
                  /\ a2[k] \in DOMAIN scheme.symbol_to_index

\* C8: score charges gap_penalty for every gap position and gap_start_penalty
\* once for every maximal gap run, a run starting at position 0 included.
C8_EveryRunChargedOnce ==
    (pc = "scored" /\ Scorable(scoring_scheme, sequence1, sequence2)) =>
        result = Ok(PairSum(scoring_scheme, sequence1, sequence2)
                    + scoring_scheme.gap_penalty
                        * (GapPositions(sequence1) + GapPositions(sequence2))
                    + scoring_scheme.gap_start_penalty
                        * (GapRuns(sequence1) + GapRuns(sequence2)))

\* ------------------------------------------------------------------ C9

\* The shape a matrix file must have: a header line after the comments, and
\* every data line a symbol of the header followed by exactly as many numeric
\* scores as the header has symbols.
WellShaped(file) ==
    LET h == HeadlineAt(file, 1) IN
    /\ h <= Len(file)
    /\ \A k \in (h + 1)..Len(file) :
           /\ Len(file[k]) = 1 + Cardinality(Range(file[h]))
           /\ file[k][1] \in Range(file[h])
           /\ \A t \in 2..Len(file[k]) : file[k][t] \in NumericTokens

\* C9: load_matrix returns only for a file of the required shape; any other
\* file makes it raise.
C9_LoadRejectsMalformed ==
    pc = "loaded" => WellShaped(args.matrix_file[1])

\* ------------------------------------------------------------------ C10

\* C10: in the backtrace every interior partial pushes at least one successor,
\* every successor has a smaller i + j, every border partial appends one
\* alignment and pushes nothing, and the loop ends within m + n + 1 passes
\* with a non-empty result.
C10_BacktraceTerminates ==
    LET m == Len(sequence1)
        n == Len(sequence2)
    IN /\ pc = "backtrace" =>
             /\ rounds <= m + n + 1
             /\ (Len(partials) = 0 => Len(alignments) > 0)
             /\ \A k \in 1..Len(partials) :
                    LET p == partials[k]
                        v == Visit(scoring_scheme, sequence1, sequence2, A, p)
                    IN /\ p.i >= 0 /\ p.j >= 0
                       /\ p.i + p.j <= m + n - rounds
                       /\ (p.i > 0 /\ p.j > 0) =>
                              /\ Len(v.pushed) >= 1
                              /\ Len(v.appended) = 0
                              /\ \A q \in 1..Len(v.pushed) :
                                     v.pushed[q].i + v.pushed[q].j < p.i + p.j
                       /\ (p.i = 0 \/ p.j = 0) =>
                              /\ Len(v.appended) = 1
                              /\ Len(v.pushed) = 0
       /\ Returned =>
             /\ rounds <= m + n + 1
             /\ Len(partials) = 0
             /\ Len(alignments) > 0

\* A call that branched and returned several alignments after several passes.
C10_Witness == Returned /\ Len(alignments) >= 2 /\ rounds >= 3

====
